---- MODULE Spec2Model ----
(***************************************************************************)
(* Radicale multifilesystem storage locking                                *)
(* (radicale/storage/multifilesystem/lock.py).                             *)
(*                                                                         *)
(* StorageLockMixin.acquire_lock wraps a protected body in the storage     *)
(* reader/writer lock and, after a write-mode body completed normally and  *)
(* a hook is configured, runs the hook as a subprocess while the lock is   *)
(* still held.  Every transaction is one call of acquire_lock; the hook    *)
(* subprocess and the processes of its process group are the environment.  *)
(***************************************************************************)
EXTENDS Integers, Sequences, FiniteSets, TLC

\* ------------------------------------------------------------------ bounds
NumTx == 2          \* concurrent callers of acquire_lock

Tx == 1..NumTx

\* ------------------------------------------------------------- strings
\* A string is a sequence of characters.  "a" stands for any character
\* shlex.quote regards as safe, " " for an unsafe one, "'" for the quote.
None == <<"None">>
Anonymous == <<"A", "n", "o", "n", "y", "m", "o", "u", "s">>
Placeholder == "%(user)s"

\* user arguments of acquire_lock: one per branch of `user or "Anonymous"`
\* and of shlex.quote
Users == {None, <<>>, <<"a">>, <<"a", " ">>, <<"'">>}

\* storage.hook values: unset, a command without placeholder, a command
\* with the user placeholder, and a template with a stray "%".
Hooks == { <<>>,
           <<"g">>,
           <<"e", " ", Placeholder>>,
           <<"e", "%">> }

RECURSIVE Flatten(_)
Flatten(ss) == IF ss = <<>> THEN <<>> ELSE Head(ss) \o Flatten(Tail(ss))

\* shlex.quote(s)
ShlexQuote(s) ==
    IF s = <<>> THEN <<"'", "'">>
    ELSE IF \A i \in 1..Len(s) : s[i] \notin {" ", "'"} THEN s
    ELSE <<"'">>
         \o Flatten([i \in 1..Len(s) |->
                IF s[i] = "'" THEN <<"'", "\"", "'", "\"", "'">> ELSE <<s[i]>>])
         \o <<"'">>

\* user or "Anonymous"
UserOrAnonymous(user) == IF user = None \/ user = <<>> THEN Anonymous ELSE user

\* hook % {"user": ...} raises on a "%" that starts no conversion
FormatRaises(hook) == \E i \in 1..Len(hook) : hook[i] = "%"

\* command = hook % {"user": shlex.quote(user or "Anonymous")}
FormatCommand(hook, user) ==
    Flatten([i \in 1..Len(hook) |->
        IF hook[i] = Placeholder THEN ShlexQuote(UserOrAnonymous(user))
        ELSE <<hook[i]>>])

\* ------------------------------------------------------------- files
\* A path is a folder (a sequence of names) and a file name (a sequence of
\* strings, concatenated).
StorageFolder == <<"filesystem_folder">>
CollectionPath == StorageFolder \o <<"collection-root", "c">>

\* os.path.join(folder, ".Radicale.lock")
StorageLockPath == [folder |-> StorageFolder, name |-> <<".Radicale.lock">>]

\* the ns arguments of _acquire_cache_lock
Namespaces == {<<>>, <<"a">>, <<"b">>}

\* os.path.join(self._filesystem_path, ".Radicale.cache")
CacheFolder == CollectionPath \o <<".Radicale.cache">>

\* every namespace uses the lock file of the empty namespace
CacheLockName_IgnoresNs(ns) == <<".Radicale.lock">>

\* ".Radicale.lock" + (".%s" % ns if ns else "")
CacheLockName(ns) ==
    <<".Radicale.lock">> \o (IF ns # <<>> THEN <<".">> \o ns ELSE <<>>)

\* os.path.join(cache_folder, ...)
CacheLockPath(ns) == [folder |-> CacheFolder, name |-> CacheLockName(ns)]

CacheLockPaths == {CacheLockPath(ns) : ns \in Namespaces}

\* ------------------------------------------------------------- values
OsNames == {"posix", "nt"}
Modes == {"r", "w"}
ExitCodes == {0, 7}
InterruptKinds == {"KeyboardInterrupt"}

NoExc == [type |-> "None", at |-> "", rc |-> 0, cmd |-> <<>>]
Exc(type, at) == [type |-> type, at |-> at, rc |-> 0, cmd |-> <<>>]
\* subprocess.CalledProcessError(p.returncode, p.args)
CalledProcessError(rc, args) ==
    [type |-> "CalledProcessError", at |-> "result", rc |-> rc, cmd |-> args]

NoProc == [state |-> "none", rc |-> 0, user |-> None, args |-> <<>>, traps |-> FALSE,
           sigterm |-> FALSE, orphans |-> FALSE]
NoHist == [body |-> "", spawned |-> 0, released |-> 0, terminated |-> 0, waited |-> 0,
           killpg |-> 0, warned |-> 0, intr |-> NoExc]

\* no scope of _acquire_cache_lock entered
NoScope == [kind |-> "none", ns |-> <<>>, path |-> StorageLockPath]

VARIABLES
    os_name,    \* os.name
    hook,       \* configuration.get("storage", "hook")
    readers,    \* transactions holding the storage lock in read mode
    writer,     \* transactions holding the storage lock in write mode
    pc,         \* where each call of acquire_lock stands
    mode,       \* its mode argument
    exc,        \* the exception in flight; at "done", what reached the caller
    p,          \* its hook subprocess (the Popen object and the process group)
    hist,       \* what the call has done so far
    tree,       \* the storage tree: the transactions whose body's writes are on disk
    cache_dir,  \* whether the collection's .Radicale.cache folder exists
    cache_lock, \* the holders of each lock file of the cache folder
    scope,      \* the scope each caller got from _acquire_cache_lock
    inner,      \* the scope it got from a call made inside that scope
    threads,    \* whether the callers are threads sharing the storage object
    queue       \* the callers blocked in self._lock.acquire, oldest first

vars == <<os_name, hook, readers, writer, pc, mode, exc, p, hist,
          tree, cache_dir, cache_lock, scope, inner, threads, queue>>

\* State after StorageLockMixin.__init__: the lock exists and nobody holds it.
Init ==
    /\ os_name \in OsNames
    /\ hook \in Hooks
    /\ readers = {}
    /\ writer = {}
    /\ pc = [t \in Tx |-> "idle"]
    /\ mode = [t \in Tx |-> "r"]
    /\ exc = [t \in Tx |-> NoExc]
    /\ p = [t \in Tx |-> NoProc]
    /\ hist = [t \in Tx |-> NoHist]
    /\ tree = {}
    /\ cache_dir = FALSE
    /\ cache_lock = [f \in CacheLockPaths |-> {}]
    /\ scope = [t \in Tx |-> NoScope]
    /\ inner = [t \in Tx |-> NoScope]
    /\ threads = TRUE
    /\ queue = <<>>

\* ------------------------------------------------ pathutils.RwLock
\* Readers share the lock; a writer excludes readers and writers.
CanAcquire(m) ==
    IF m = "w" THEN readers = {} /\ writer = {} ELSE writer = {}

LockAcquire(t, m) ==
    /\ CanAcquire(m)
    /\ readers' = IF m = "r" THEN readers \cup {t} ELSE readers
    /\ writer' = IF m = "w" THEN writer \cup {t} ELSE writer

LockRelease(t) ==
    /\ readers' = readers \ {t}
    /\ writer' = writer \ {t}

\* RwLock.locked
Locked == IF readers # {} THEN "r" ELSE IF writer # {} THEN "w" ELSE ""

Holds(t) == t \in readers \cup writer

\* --------------------------------------------------- acquire_lock
\* every transaction takes the lock in read mode
LockMode_AlwaysRead(m) == "r"

\* the mode handed to self._lock.acquire
LockMode(m) == m

\* with self._lock.acquire(mode) as lock_file:
Acquire(t, m) ==
    /\ pc[t] = "idle"
    /\ scope[t] = NoScope
    /\ LockAcquire(t, LockMode(m))
    /\ mode' = [mode EXCEPT ![t] = m]
    /\ pc' = [pc EXCEPT ![t] = "body"]
    /\ UNCHANGED <<tree, cache_dir, cache_lock, scope, inner, threads,
                   queue, os_name, hook,
                   exc, p, hist>>

\* the hook sits in a finally clause: it runs although the body raised
BodyRaise_RunsHook(t) ==
    /\ pc[t] = "body"
    /\ exc' = [exc EXCEPT ![t] = Exc("BodyError", "body")]
    /\ hist' = [hist EXCEPT ![t].body = "raised"]
    /\ pc' = [pc EXCEPT ![t] = IF mode[t] = "w" /\ hook # <<>> THEN "popen" ELSE "exit"]
    /\ UNCHANGED <<tree, cache_dir, cache_lock, scope, inner, threads,
                   queue, os_name, hook,
                   readers, writer, mode, p>>

\* yield: the protected body raises; the exception leaves the with block
BodyRaise(t) ==
    /\ pc[t] = "body"
    /\ scope[t] = NoScope
    /\ exc' = [exc EXCEPT ![t] = Exc("BodyError", "body")]
    /\ hist' = [hist EXCEPT ![t].body = "raised"]
    /\ pc' = [pc EXCEPT ![t] = "exit"]
    /\ UNCHANGED <<tree, cache_dir, cache_lock, scope, inner, threads,
                   queue, os_name, hook,
                   readers, writer, mode, p>>

\* the mode is not looked at
RunsHook_IgnoresMode(m, h) == h # <<>>

\* if mode == "w" and hook:
RunsHook(m, h) == m = "w" /\ h # <<>>

\* the hook runs after the with block instead of inside it
BodyReturn_ReleaseFirst(t) ==
    /\ pc[t] = "body"
    /\ LockRelease(t)
    /\ hist' = [hist EXCEPT ![t].body = "returned", ![t].released = @ + 1]
    /\ tree' = IF mode[t] = "w" THEN tree \cup {t} ELSE tree
    /\ pc' = [pc EXCEPT ![t] = IF mode[t] = "w" /\ hook # <<>> THEN "popen" ELSE "exit"]
    /\ UNCHANGED <<cache_dir, cache_lock, scope, inner, threads,
                   queue, os_name, hook, mode,
                   exc, p>>

\* yield: the protected body completes (falls through or returns early)
BodyReturn(t) ==
    /\ pc[t] = "body"
    /\ scope[t] = NoScope
    /\ hist' = [hist EXCEPT ![t].body = "returned"]
    /\ tree' = IF mode[t] = "w" THEN tree \cup {t} ELSE tree
    /\ pc' = [pc EXCEPT ![t] = IF RunsHook(mode[t], hook) THEN "popen" ELSE "exit"]
    /\ UNCHANGED <<cache_dir, cache_lock, scope, inner, threads,
                   queue, os_name, hook,
                   readers, writer, mode, exc, p>>

\* command = hook % {...} raises
FormatFail(t) ==
    /\ pc[t] = "popen"
    /\ FormatRaises(hook)
    /\ exc' = [exc EXCEPT ![t] = Exc("ValueError", "format")]
    /\ pc' = [pc EXCEPT ![t] = "exit"]
    /\ UNCHANGED <<tree, cache_dir, cache_lock, scope, inner, threads,
                   queue, os_name, hook,
                   readers, writer, mode, p, hist>>

\* Popen is called inside the try statement
PopenFail_InsideTry(t) ==
    /\ pc[t] = "popen"
    /\ ~FormatRaises(hook)
    /\ exc' = [exc EXCEPT ![t] = Exc("OSError", "popen")]
    /\ pc' = [pc EXCEPT ![t] = "terminate"]
    /\ UNCHANGED <<tree, cache_dir, cache_lock, scope, inner, threads,
                   queue, os_name, hook,
                   readers, writer, mode, p, hist>>

\* p = subprocess.Popen(command, **popen_kwargs) raises
PopenFail(t) ==
    /\ pc[t] = "popen"
    /\ ~FormatRaises(hook)
    /\ exc' = [exc EXCEPT ![t] = Exc("OSError", "popen")]
    /\ pc' = [pc EXCEPT ![t] = "exit"]
    /\ UNCHANGED <<tree, cache_dir, cache_lock, scope, inner, threads,
                   queue, os_name, hook,
                   readers, writer, mode, p, hist>>

\* p = subprocess.Popen(command, **popen_kwargs); traps: whether the
\* command ignores SIGTERM
Popen(t, user, traps) ==
    /\ pc[t] = "popen"
    /\ ~FormatRaises(hook)
    /\ p' = [p EXCEPT ![t] = [NoProc EXCEPT !.state = "running",
                                            !.user = user,
                                            !.args = FormatCommand(hook, user),
                                            !.traps = traps]]
    /\ hist' = [hist EXCEPT ![t].spawned = @ + 1]
    /\ pc' = [pc EXCEPT ![t] = "communicate"]
    /\ UNCHANGED <<tree, cache_dir, cache_lock, scope, inner, threads,
                   queue, os_name, hook,
                   readers, writer, mode, exc>>

\* the subprocess is started and not waited for
CommunicateReturn_NoWait(t) ==
    /\ pc[t] = "communicate"
    /\ pc' = [pc EXCEPT ![t] = "finally"]
    /\ UNCHANGED <<tree, cache_dir, cache_lock, scope, inner, threads,
                   queue, os_name, hook,
                   readers, writer, mode, exc, p, hist>>

\* stdout_data, stderr_data = p.communicate() returns: the subprocess has
\* exited and is reaped
CommunicateReturn(t) ==
    /\ pc[t] = "communicate"
    /\ p[t].state = "zombie"
    /\ p' = [p EXCEPT ![t].state = "reaped"]
    /\ hist' = [hist EXCEPT ![t].waited = 1]
    /\ pc' = [pc EXCEPT ![t] = "finally"]
    /\ UNCHANGED <<tree, cache_dir, cache_lock, scope, inner, threads,
                   queue, os_name, hook,
                   readers, writer, mode, exc>>

\* p.communicate() raises a BaseException
CommunicateInterrupt(t, kind) ==
    /\ pc[t] = "communicate"
    /\ exc' = [exc EXCEPT ![t] = Exc(kind, "communicate")]
    /\ hist' = [hist EXCEPT ![t].intr = Exc(kind, "communicate")]
    /\ pc' = [pc EXCEPT ![t] = "terminate"]
    /\ UNCHANGED <<tree, cache_dir, cache_lock, scope, inner, threads,
                   queue, os_name, hook,
                   readers, writer, mode, p>>

\* the except clause does not call p.terminate()
Terminate_Skipped(t) ==
    /\ pc[t] = "terminate"
    /\ pc' = [pc EXCEPT ![t] = "wait"]
    /\ UNCHANGED <<tree, cache_dir, cache_lock, scope, inner, threads,
                   queue, os_name, hook,
                   readers, writer, mode, exc, p, hist>>

\* the subprocess once it has exited with status rc
Dead(proc, rc) ==
    [proc EXCEPT !.state = "zombie", !.rc = rc, !.traps = FALSE, !.sigterm = FALSE]

\* p.terminate(): SIGTERM on posix, TerminateProcess on nt
Terminate(t) ==
    /\ pc[t] = "terminate"
    /\ p' = [p EXCEPT ![t] =
                IF @.state # "running" THEN @
                ELSE IF os_name = "posix" THEN [@ EXCEPT !.sigterm = TRUE]
                ELSE Dead(@, 1)]
    /\ hist' = [hist EXCEPT ![t].terminated = @ + 1]
    /\ pc' = [pc EXCEPT ![t] = "wait"]
    /\ UNCHANGED <<tree, cache_dir, cache_lock, scope, inner, threads,
                   queue, os_name, hook,
                   readers, writer, mode, exc>>

\* p.wait() returns, then raise: the exception in flight goes on
WaitReturn(t) ==
    /\ pc[t] = "wait"
    /\ p[t].state = "zombie"
    /\ p' = [p EXCEPT ![t].state = "reaped"]
    /\ hist' = [hist EXCEPT ![t].waited = 1]
    /\ pc' = [pc EXCEPT ![t] = "finally"]
    /\ UNCHANGED <<tree, cache_dir, cache_lock, scope, inner, threads,
                   queue, os_name, hook,
                   readers, writer, mode, exc>>

\* p.wait() raises a BaseException of its own
WaitInterrupt(t, kind) ==
    /\ pc[t] = "wait"
    /\ exc' = [exc EXCEPT ![t] = Exc(kind, "wait")]
    /\ pc' = [pc EXCEPT ![t] = "finally"]
    /\ UNCHANGED <<tree, cache_dir, cache_lock, scope, inner, threads,
                   queue, os_name, hook,
                   readers, writer, mode, p, hist>>

\* os.killpg(p.pid, ...) finds a process in the hook's process group: the
\* hook command itself until it is reaped, or a process it left behind
GroupFound(t) == p[t].state \in {"running", "zombie"} \/ p[t].orphans

\* the finally clause kills nothing
Finally_NoKillpg(t) ==
    /\ pc[t] = "finally"
    /\ pc' = [pc EXCEPT ![t] = IF exc[t] # NoExc THEN "exit" ELSE "result"]
    /\ UNCHANGED <<tree, cache_dir, cache_lock, scope, inner, threads,
                   queue, os_name, hook,
                   readers, writer, mode, exc, p, hist>>

\* the warning is logged in the finally clause itself, not in the else
\* clause of the inner try
Finally_AlwaysWarns(t) ==
    /\ pc[t] = "finally"
    /\ IF os_name = "posix"
       THEN /\ p' = [p EXCEPT ![t] =
                       [(IF @.state = "running" THEN Dead(@, -9) ELSE @)
                           EXCEPT !.orphans = FALSE]]
            /\ hist' = [hist EXCEPT ![t].killpg = @ + 1, ![t].warned = @ + 1]
       ELSE UNCHANGED <<p, hist>>
    /\ pc' = [pc EXCEPT ![t] = IF exc[t] # NoExc THEN "exit" ELSE "result"]
    /\ UNCHANGED <<tree, cache_dir, cache_lock, scope, inner, threads,
                   queue, os_name, hook,
                   readers, writer, mode, exc>>

\* finally: os.killpg(p.pid, signal.SIGKILL) on posix
Finally(t) ==
    /\ pc[t] = "finally"
    /\ IF os_name = "posix"
       THEN IF GroupFound(t)
            THEN /\ p' = [p EXCEPT ![t] =
                            [(IF @.state = "running" THEN Dead(@, -9) ELSE @)
                                EXCEPT !.orphans = FALSE]]
                 /\ hist' = [hist EXCEPT ![t].killpg = @ + 1, ![t].warned = @ + 1]
            ELSE /\ p' = p
                 /\ hist' = [hist EXCEPT ![t].killpg = @ + 1]
       ELSE UNCHANGED <<p, hist>>
    /\ pc' = [pc EXCEPT ![t] = IF exc[t] # NoExc THEN "exit" ELSE "result"]
    /\ UNCHANGED <<tree, cache_dir, cache_lock, scope, inner, threads,
                   queue, os_name, hook,
                   readers, writer, mode, exc>>

\* the return code is not looked at
HookError_Ignored(rc, args) == NoExc

\* if p.returncode != 0: raise subprocess.CalledProcessError(...)
HookError(rc, args) == IF rc # 0 THEN CalledProcessError(rc, args) ELSE NoExc

\* a failed hook is run again
Result_Retry(t) ==
    /\ pc[t] = "result"
    /\ exc' = exc
    /\ pc' = [pc EXCEPT ![t] = IF p[t].rc # 0 THEN "popen" ELSE "exit"]
    /\ UNCHANGED <<tree, cache_dir, cache_lock, scope, inner, threads,
                   queue, os_name, hook,
                   readers, writer, mode, p, hist>>

\* lines 98-103: the captured output is logged and the return code checked
Result(t) ==
    /\ pc[t] = "result"
    /\ exc' = [exc EXCEPT ![t] = HookError(p[t].rc, p[t].args)]
    /\ pc' = [pc EXCEPT ![t] = "exit"]
    /\ UNCHANGED <<tree, cache_dir, cache_lock, scope, inner, threads,
                   queue, os_name, hook,
                   readers, writer, mode, p, hist>>

\* the lock is released by hand on the normal path only
ExitScope_LeakOnError(t) ==
    /\ pc[t] = "exit"
    /\ IF exc[t] = NoExc
       THEN LockRelease(t) /\ hist' = [hist EXCEPT ![t].released = @ + 1]
       ELSE UNCHANGED <<readers, writer, hist>>
    /\ p' = [p EXCEPT ![t].args = <<>>, ![t].user = None]
    /\ pc' = [pc EXCEPT ![t] = "done"]
    /\ UNCHANGED <<tree, cache_dir, cache_lock, scope, inner, threads,
                   queue, os_name, hook,
                   mode, exc>>

\* a transaction that ends with an error undoes the writes of its body
ExitScope_Rollback(t) ==
    /\ pc[t] = "exit"
    /\ LockRelease(t)
    /\ hist' = [hist EXCEPT ![t].released = @ + 1]
    /\ p' = [p EXCEPT ![t].args = <<>>, ![t].user = None]
    /\ tree' = IF exc[t] # NoExc THEN tree \ {t} ELSE tree
    /\ pc' = [pc EXCEPT ![t] = "done"]
    /\ UNCHANGED <<cache_dir, cache_lock, scope, inner, threads,
                   queue, os_name, hook, mode, exc>>

\* the with block is left: the lock handle is released and the exception
\* in flight, if any, reaches the caller; the local p goes out of scope and
\* only the processes themselves remain
ExitScope(t) ==
    /\ pc[t] = "exit"
    /\ LockRelease(t)
    /\ hist' = [hist EXCEPT ![t].released = @ + 1]
    /\ p' = [p EXCEPT ![t].args = <<>>, ![t].user = None]
    /\ pc' = [pc EXCEPT ![t] = "done"]
    /\ UNCHANGED <<tree, cache_dir, cache_lock, scope, inner, threads,
                   queue, os_name, hook,
                   mode, exc>>

\* the caller starts another transaction
Restart(t) ==
    /\ pc[t] = "done"
    /\ pc' = [pc EXCEPT ![t] = "idle"]
    /\ mode' = [mode EXCEPT ![t] = "r"]
    /\ exc' = [exc EXCEPT ![t] = NoExc]
    /\ p' = [p EXCEPT ![t] = NoProc]
    /\ hist' = [hist EXCEPT ![t] = NoHist]
    /\ tree' = tree \ {t}
    /\ UNCHANGED <<cache_dir, cache_lock, scope, inner, threads,
                   queue, os_name, hook,
                   readers, writer>>

\* ------------------------------------------ the hook's process group
\* the hook command exits by itself
HookExit(t, code) ==
    /\ p[t].state = "running"
    /\ p' = [p EXCEPT ![t] = Dead(@, code)]
    /\ UNCHANGED <<tree, cache_dir, cache_lock, scope, inner, threads,
                   queue, os_name, hook,
                   readers, writer, pc, mode, exc, hist>>

\* the hook command dies of the SIGTERM sent by p.terminate()
HookSigterm(t) ==
    /\ p[t].state = "running"
    /\ p[t].sigterm
    /\ ~p[t].traps
    /\ p' = [p EXCEPT ![t] = Dead(@, -15)]
    /\ UNCHANGED <<tree, cache_dir, cache_lock, scope, inner, threads,
                   queue, os_name, hook,
                   readers, writer, pc, mode, exc, hist>>

\* the hook command starts a process in its group
HookFork(t) ==
    /\ p[t].state = "running"
    /\ ~p[t].orphans
    /\ p' = [p EXCEPT ![t].orphans = TRUE]
    /\ UNCHANGED <<tree, cache_dir, cache_lock, scope, inner, threads,
                   queue, os_name, hook,
                   readers, writer, pc, mode, exc, hist>>

\* the last process of the group other than the hook command exits
ChildExit(t) ==
    /\ p[t].orphans
    /\ p' = [p EXCEPT ![t].orphans = FALSE]
    /\ UNCHANGED <<tree, cache_dir, cache_lock, scope, inner, threads,
                   queue, os_name, hook,
                   readers, writer, pc, mode, exc, hist>>

\* ------------------------------------------- _acquire_cache_lock
\* self._storage._lock.locked, as the caller reads it: the mode of the lock
\* object of its own process; in another process the object holds nothing
\* unless the caller itself is inside a transaction
LockedBy(t) ==
    IF threads THEN Locked
    ELSE IF t \in writer THEN "w" ELSE IF t \in readers THEN "r" ELSE ""

\* the ExitStack of line 31
NoOp(ns) == [kind |-> "noop", ns |-> ns, path |-> StorageLockPath]

\* the cache lock is taken whatever the mode of the storage lock
CacheScope_AlwaysLocks(locked, ns) ==
    [kind |-> "wait", ns |-> ns, path |-> CacheLockPath(ns)]

\* what _acquire_cache_lock(ns) returns: the no-op resource under a write
\* lock, otherwise the write lock of the namespace's lock file, not yet entered
CacheScope(locked, ns) ==
    IF locked = "w"
    THEN NoOp(ns)
    ELSE [kind |-> "wait", ns |-> ns, path |-> CacheLockPath(ns)]

\* self._storage._makedirs_synced(cache_folder), reached unless line 31 returned
MakedirsSynced(locked) == cache_dir' = (cache_dir \/ locked # "w")

\* _acquire_cache_lock(ns) called in the body of a transaction
CacheCall(t, ns) ==
    /\ pc[t] = "body"
    /\ scope[t] = NoScope
    /\ scope' = [scope EXCEPT ![t] = CacheScope(LockedBy(t), ns)]
    /\ MakedirsSynced(LockedBy(t))
    /\ UNCHANGED <<tree, cache_lock, inner, threads, queue, os_name, hook,
                   readers, writer, pc, mode, exc, p, hist>>

\* _acquire_cache_lock(ns) called by a caller that is in no transaction
CacheCallAbsent(t, ns) ==
    /\ pc[t] = "idle"
    /\ scope[t] = NoScope
    /\ scope' = [scope EXCEPT ![t] = CacheScope(LockedBy(t), ns)]
    /\ MakedirsSynced(LockedBy(t))
    /\ UNCHANGED <<tree, cache_lock, inner, threads, queue, os_name, hook,
                   readers, writer, pc, mode, exc, p, hist>>

\* _acquire_cache_lock(ns) called inside the scope of an earlier call
CacheCallNested(t, ns) ==
    /\ pc[t] = "body"
    /\ scope[t].kind \in {"noop", "real"}
    /\ inner[t] = NoScope
    /\ inner' = [inner EXCEPT ![t] = CacheScope(LockedBy(t), ns)]
    /\ MakedirsSynced(LockedBy(t))
    /\ UNCHANGED <<tree, cache_lock, scope, threads, queue, os_name, hook,
                   readers, writer, pc, mode, exc, p, hist>>

\* lock.acquire("w") of line 39 is entered: the lock file is free
CacheEnter(t) ==
    /\ scope[t].kind = "wait"
    /\ cache_lock[scope[t].path] = {}
    /\ cache_lock' = [cache_lock EXCEPT ![scope[t].path] = {t}]
    /\ scope' = [scope EXCEPT ![t].kind = "real"]
    /\ UNCHANGED <<tree, cache_dir, inner, threads, queue, os_name, hook,
                   readers, writer, pc, mode, exc, p, hist>>

CacheEnterNested(t) ==
    /\ inner[t].kind = "wait"
    /\ cache_lock[inner[t].path] = {}
    /\ cache_lock' = [cache_lock EXCEPT ![inner[t].path] = {t}]
    /\ inner' = [inner EXCEPT ![t].kind = "real"]
    /\ UNCHANGED <<tree, cache_dir, scope, threads, queue, os_name, hook,
                   readers, writer, pc, mode, exc, p, hist>>

\* the lock file stays locked when the scope is left
CacheExit_KeepsLock(t) ==
    /\ scope[t].kind \in {"noop", "real"}
    /\ inner[t] = NoScope
    /\ scope' = [scope EXCEPT ![t] = NoScope]
    /\ UNCHANGED <<tree, cache_dir, cache_lock, inner, threads, queue, os_name,
                   hook, readers, writer, pc, mode, exc, p, hist>>

\* the scope is left: a lock that was taken is released
CacheExit(t) ==
    /\ scope[t].kind \in {"noop", "real"}
    /\ inner[t] = NoScope
    /\ cache_lock' = IF scope[t].kind = "real"
                     THEN [cache_lock EXCEPT ![scope[t].path] = {}]
                     ELSE cache_lock
    /\ scope' = [scope EXCEPT ![t] = NoScope]
    /\ UNCHANGED <<tree, cache_dir, inner, threads, queue, os_name, hook,
                   readers, writer, pc, mode, exc, p, hist>>

CacheExitNested(t) ==
    /\ inner[t].kind \in {"noop", "real"}
    /\ cache_lock' = IF inner[t].kind = "real"
                     THEN [cache_lock EXCEPT ![inner[t].path] = {}]
                     ELSE cache_lock
    /\ inner' = [inner EXCEPT ![t] = NoScope]
    /\ UNCHANGED <<tree, cache_dir, scope, threads, queue, os_name, hook,
                   readers, writer, pc, mode, exc, p, hist>>

\* ------------------------------------------ the caller's process dies
\* the lock file's descriptor is never handed to the hook
PassFds_Never(os) == FALSE

\* lines 64-68: popen_kwargs["pass_fds"] = [lock_file.fileno()] on posix only
PassFds(os) == os = "posix"

\* a process of the hook's group holds the inherited descriptor of the lock
HeldByGroup(t) == PassFds(os_name) /\ (p[t].state = "running" \/ p[t].orphans)

\* the process that runs acquire_lock is killed while it waits for its hook:
\* its own descriptor of the lock file is closed, and the lock with it
\* unless the hook's processes hold the descriptor too
ParentKilled(t) ==
    /\ pc[t] \in {"communicate", "terminate", "wait"}
    /\ pc' = [pc EXCEPT ![t] = "killed"]
    /\ IF HeldByGroup(t) THEN UNCHANGED <<readers, writer>> ELSE LockRelease(t)
    /\ UNCHANGED <<tree, cache_dir, cache_lock, scope, inner, threads, queue,
                   os_name, hook, mode, exc, p, hist>>

\* the last process holding the inherited descriptor has exited
DescriptorClosed(t) ==
    /\ pc[t] = "killed"
    /\ Holds(t)
    /\ ~HeldByGroup(t)
    /\ LockRelease(t)
    /\ UNCHANGED <<tree, cache_dir, cache_lock, scope, inner, threads, queue,
                   os_name, hook, pc, mode, exc, p, hist>>

\* ------------------------------------- a lock that serves in order
\* self._lock.acquire(mode) is called and the caller waits its turn
Request(t, m) ==
    /\ pc[t] = "idle"
    /\ scope[t] = NoScope
    /\ mode' = [mode EXCEPT ![t] = m]
    /\ queue' = Append(queue, t)
    /\ pc' = [pc EXCEPT ![t] = "acquiring"]
    /\ UNCHANGED <<tree, cache_dir, cache_lock, scope, inner, threads,
                   os_name, hook, readers, writer, exc, p, hist>>

\* the oldest waiting caller gets the lock as soon as its mode allows
Grant(t) ==
    /\ pc[t] = "acquiring"
    /\ queue # <<>>
    /\ Head(queue) = t
    /\ LockAcquire(t, LockMode(mode[t]))
    /\ queue' = Tail(queue)
    /\ pc' = [pc EXCEPT ![t] = "body"]
    /\ UNCHANGED <<tree, cache_dir, cache_lock, scope, inner, threads,
                   os_name, hook, mode, exc, p, hist>>

Step(t) ==
    \/ \E m \in Modes : Acquire(t, m)
    \/ BodyRaise(t)
    \/ BodyReturn(t)
    \/ FormatFail(t)
    \/ PopenFail(t)
    \/ \E user \in Users, traps \in BOOLEAN : Popen(t, user, traps)
    \/ CommunicateReturn(t)
    \/ \E kind \in InterruptKinds : CommunicateInterrupt(t, kind)
    \/ Terminate(t)
    \/ WaitReturn(t)
    \/ \E kind \in InterruptKinds : WaitInterrupt(t, kind)
    \/ Finally(t)
    \/ Result(t)
    \/ ExitScope(t)
    \/ Restart(t)

Env(t) ==
    \/ \E code \in ExitCodes : HookExit(t, code)
    \/ HookSigterm(t)
    \/ HookFork(t)
    \/ ChildExit(t)

Next == \E t \in Tx : Step(t) \/ Env(t)

Spec == Init /\ [][Next]_vars

\* What the interpreter and the operating system guarantee: a call that can
\* go on does go on, and a process that does not ignore SIGTERM dies of it.
\* Nothing obliges a caller to start a transaction, a signal to arrive, or a
\* hook command to exit.
Progress(t) ==
    \/ BodyRaise(t)
    \/ BodyReturn(t)
    \/ FormatFail(t)
    \/ PopenFail(t)
    \/ \E user \in Users, traps \in BOOLEAN : Popen(t, user, traps)
    \/ CommunicateReturn(t)
    \/ Terminate(t)
    \/ WaitReturn(t)
    \/ Finally(t)
    \/ Result(t)
    \/ ExitScope(t)

FairSpec ==
    Spec /\ \A t \in Tx : WF_vars(Progress(t)) /\ WF_vars(HookSigterm(t))

\* ---------------------------------------------- cache lock callers
\* No hook is configured (the default); the callers are threads of one
\* server process or processes of their own, and they call
\* _acquire_cache_lock inside a transaction or outside of any.
CacheInit ==
    /\ os_name = "posix"
    /\ hook = <<>>
    /\ threads \in BOOLEAN
    /\ readers = {}
    /\ writer = {}
    /\ pc = [t \in Tx |-> "idle"]
    /\ mode = [t \in Tx |-> "r"]
    /\ exc = [t \in Tx |-> NoExc]
    /\ p = [t \in Tx |-> NoProc]
    /\ hist = [t \in Tx |-> NoHist]
    /\ tree = {}
    /\ cache_dir = FALSE
    /\ cache_lock = [f \in CacheLockPaths |-> {}]
    /\ scope = [t \in Tx |-> NoScope]
    /\ inner = [t \in Tx |-> NoScope]
    /\ queue = <<>>

CacheStep(t) ==
    \/ \E m \in Modes : Acquire(t, m)
    \/ BodyRaise(t)
    \/ BodyReturn(t)
    \/ ExitScope(t)
    \/ Restart(t)
    \/ \E ns \in Namespaces : CacheCall(t, ns)
    \/ \E ns \in Namespaces : CacheCallAbsent(t, ns)
    \/ CacheEnter(t)
    \/ CacheExit(t)

CacheNext == \E t \in Tx : CacheStep(t)

CacheSpec == CacheInit /\ [][CacheNext]_vars

\* ------------------------------------------- callers that get killed
\* A hook is configured; every caller is a process of its own, and a caller
\* may be killed while it waits for its hook.
KillInit ==
    /\ os_name \in OsNames
    /\ hook = <<"g">>
    /\ threads = FALSE
    /\ readers = {}
    /\ writer = {}
    /\ pc = [t \in Tx |-> "idle"]
    /\ mode = [t \in Tx |-> "r"]
    /\ exc = [t \in Tx |-> NoExc]
    /\ p = [t \in Tx |-> NoProc]
    /\ hist = [t \in Tx |-> NoHist]
    /\ tree = {}
    /\ cache_dir = FALSE
    /\ cache_lock = [f \in CacheLockPaths |-> {}]
    /\ scope = [t \in Tx |-> NoScope]
    /\ inner = [t \in Tx |-> NoScope]
    /\ queue = <<>>

KillStep(t) ==
    \/ \E m \in Modes : Acquire(t, m)
    \/ BodyRaise(t)
    \/ BodyReturn(t)
    \/ PopenFail(t)
    \/ \E traps \in BOOLEAN : Popen(t, None, traps)
    \/ CommunicateReturn(t)
    \/ \E kind \in InterruptKinds : CommunicateInterrupt(t, kind)
    \/ Terminate(t)
    \/ WaitReturn(t)
    \/ \E kind \in InterruptKinds : WaitInterrupt(t, kind)
    \/ Finally(t)
    \/ Result(t)
    \/ ExitScope(t)
    \/ Restart(t)
    \/ ParentKilled(t)
    \/ DescriptorClosed(t)

KillNext == \E t \in Tx : KillStep(t) \/ Env(t)

KillSpec == KillInit /\ [][KillNext]_vars

\* --------------------------------------- transactions that nest locks
\* Every caller takes the storage lock first, from a lock that serves its
\* callers in order, and calls _acquire_cache_lock in its body, possibly
\* again inside the scope it got. Hooks run to their end undisturbed.
LiveInit ==
    /\ os_name = "posix"
    /\ hook = <<"g">>
    /\ threads = TRUE
    /\ readers = {}
    /\ writer = {}
    /\ pc = [t \in Tx |-> "idle"]
    /\ mode = [t \in Tx |-> "r"]
    /\ exc = [t \in Tx |-> NoExc]
    /\ p = [t \in Tx |-> NoProc]
    /\ hist = [t \in Tx |-> NoHist]
    /\ tree = {}
    /\ cache_dir = FALSE
    /\ cache_lock = [f \in CacheLockPaths |-> {}]
    /\ scope = [t \in Tx |-> NoScope]
    /\ inner = [t \in Tx |-> NoScope]
    /\ queue = <<>>

\* the steps a caller takes by itself once it can
LiveProgress(t) ==
    \/ Grant(t)
    \/ CacheExitNested(t)
    \/ Popen(t, None, FALSE)
    \/ CommunicateReturn(t)
    \/ Finally(t)
    \/ Result(t)
    \/ ExitScope(t)

\* the body leaves the scope of its first cache lock call, and the body ends:
\* it does so however often it makes further calls
BodyEnds(t) == BodyRaise(t) \/ BodyReturn(t)

LiveStep(t) ==
    \/ \E m \in Modes : Request(t, m)
    \/ \E ns \in Namespaces : CacheCall(t, ns)
    \/ \E ns \in Namespaces : CacheCallNested(t, ns)
    \/ CacheEnter(t)
    \/ CacheEnterNested(t)
    \/ CacheExit(t)
    \/ BodyEnds(t)
    \/ LiveProgress(t)
    \/ \E code \in ExitCodes : HookExit(t, code)
    \/ Restart(t)

LiveNext == \E t \in Tx : LiveStep(t)

\* Bodies and hooks terminate, and a free cache lock file goes to a caller
\* that keeps asking for it.
LiveSpec ==
    /\ LiveInit /\ [][LiveNext]_vars
    /\ \A t \in Tx :
        /\ WF_vars(LiveProgress(t))
        /\ SF_vars(CacheExit(t))
        /\ SF_vars(BodyEnds(t))
        /\ WF_vars(\E code \in ExitCodes : HookExit(t, code))
        /\ SF_vars(CacheEnter(t))
        /\ SF_vars(CacheEnterNested(t))

\* ================================================================ claims
InScope(t) == pc[t] \notin {"idle", "done"}
Interruption(at) == Exc("KeyboardInterrupt", at)

\* C1 (as stated): once a transaction that spawned a hook subprocess has
\* released the storage lock, the subprocess has been waited on
\* (communicate() or wait() has returned).
C1_ReleasedOnlyAfterWaited ==
    \A t \in Tx :
        hist[t].spawned > 0 /\ hist[t].released > 0 => hist[t].waited = 1

\* C1 (amended): once a transaction that spawned a hook subprocess has
\* released the storage lock, either the subprocess has been waited on, or
\* communicate() and then wait() were both interrupted, terminate() had been
\* called, and the subprocess is no longer running.
C1_ReleasedOnlyAfterWaitedOrKilled ==
    \A t \in Tx :
        hist[t].spawned > 0 /\ hist[t].released > 0 =>
            \/ hist[t].waited = 1
            \/ /\ hist[t].intr = Interruption("communicate")
               /\ exc[t] = Interruption("wait")
               /\ hist[t].terminated = 1
               /\ p[t].state # "running"

\* the lock was released after an interrupted communicate(), terminate() and
\* a completed wait()
C1_Witness ==
    \E t \in Tx :
        /\ pc[t] = "done" /\ hist[t].released = 1 /\ hist[t].spawned = 1
        /\ hist[t].intr # NoExc /\ hist[t].terminated = 1 /\ hist[t].waited = 1

\* C2: the lock handle is held from acquisition to the end of the scope and
\* released exactly once on every exit path; after the scope has exited the
\* transaction does not hold the lock.
C2_ReleasedExactlyOnce ==
    \A t \in Tx :
        /\ hist[t].released <= 1
        /\ InScope(t) => Holds(t) /\ hist[t].released = 0
        /\ pc[t] = "done" => ~Holds(t) /\ hist[t].released = 1
        /\ pc[t] = "idle" => ~Holds(t)

\* a scope left by the interruption of the hook wait has released the lock
C2_Witness ==
    \E t \in Tx :
        /\ pc[t] = "done" /\ exc[t] = Interruption("communicate")
        /\ hist[t].released = 1 /\ ~Holds(t)

\* C3: a write transaction with a non-empty hook that ends without error has
\* spawned the hook exactly once and waited for it; the hook is spawned only
\* after the body returned, never twice, and while the subprocess of an
\* uninterrupted transaction exists unreaped its transaction holds the write
\* lock.
C3_HookOnceUnderLock ==
    \A t \in Tx :
        /\ hist[t].spawned <= 1
        /\ hist[t].spawned = 1 => hist[t].body = "returned"
        /\ p[t].state \in {"running", "zombie"} /\ hist[t].intr = NoExc =>
                writer = {t} /\ hist[t].released = 0
        /\ pc[t] = "done" /\ mode[t] = "w" /\ hook # <<>> /\ exc[t] = NoExc =>
                /\ hist[t].spawned = 1
                /\ hist[t].waited = 1
                /\ p[t].state = "reaped"

\* a write transaction with a hook has ended without error
C3_Witness ==
    \E t \in Tx :
        /\ pc[t] = "done" /\ mode[t] = "w" /\ hook # <<>> /\ exc[t] = NoExc
        /\ hist[t].spawned = 1 /\ p[t].rc = 0

\* C4: if the body raises, no hook subprocess is spawned, and at the end of
\* the scope the lock is released and the body's exception reaches the caller.
C4_BodyErrorSkipsHook ==
    \A t \in Tx :
        hist[t].body = "raised" =>
            /\ hist[t].spawned = 0
            /\ p[t].state = "none"
            /\ exc[t] = Exc("BodyError", "body")
            /\ pc[t] \in {"exit", "done"}
            /\ pc[t] = "done" => ~Holds(t) /\ hist[t].released = 1

\* the body of a write transaction with a configured hook raised and the
\* scope has exited
C4_Witness ==
    \E t \in Tx :
        /\ pc[t] = "done" /\ hist[t].body = "raised"
        /\ mode[t] = "w" /\ hook # <<>> /\ ~FormatRaises(hook)

\* C5: a hook subprocess is spawned only if the mode is write, the body
\* completed normally and the configured hook is non-empty.
C5_HookOnlyForWrite ==
    \A t \in Tx :
        hist[t].spawned > 0 \/ p[t].state # "none" =>
            mode[t] = "w" /\ hist[t].body = "returned" /\ hook # <<>>

\* a read transaction has completed with a hook configured and spawned nothing
C5_Witness ==
    \E t \in Tx :
        /\ pc[t] = "done" /\ mode[t] = "r" /\ hist[t].body = "returned"
        /\ hook # <<>> /\ ~FormatRaises(hook) /\ hist[t].spawned = 0

\* C6: when communicate() returned without interruption, exit status 0 gives
\* no error and a non-zero exit status gives a CalledProcessError with that
\* status and the resolved command line (the hook with the shell-quoted user
\* substituted), which is what reaches the caller.
C6_OutcomeByExitCode ==
    \A t \in Tx :
        hist[t].spawned = 1 /\ hist[t].intr = NoExc /\ pc[t] \in {"exit", "done"} =>
            /\ p[t].rc = 0 => exc[t] = NoExc
            /\ p[t].rc # 0 =>
                /\ exc[t].type = "CalledProcessError"
                /\ exc[t].rc = p[t].rc
                /\ pc[t] = "exit" =>
                    /\ exc[t].cmd = p[t].args
                    /\ hook = <<"g">> => exc[t].cmd = <<"g">>
                    /\ hook = <<"e", " ", Placeholder>> =>
                        /\ p[t].user \in {None, <<>>} =>
                            exc[t].cmd = <<"e", " ">> \o Anonymous
                        /\ p[t].user = <<"a">> => exc[t].cmd = <<"e", " ", "a">>
                        /\ p[t].user = <<"a", " ">> =>
                            exc[t].cmd = <<"e", " ", "'", "a", " ", "'">>
                        /\ p[t].user = <<"'">> =>
                            exc[t].cmd =
                                <<"e", " ", "'", "'", "\"", "'", "\"", "'", "'">>

\* a hook run for a user needing quotes has exited with status 7
C6_Witness ==
    \E t \in Tx :
        /\ pc[t] = "exit" /\ hist[t].spawned = 1 /\ hist[t].intr = NoExc
        /\ p[t].rc = 7 /\ p[t].user = <<"a", " ">>
        /\ exc[t].type = "CalledProcessError"

\* C7 (as stated): if communicate() was interrupted, the scope ends only
\* after terminate() was called and wait() has returned, and what reaches the
\* caller is the original interruption.
C7_InterruptionPropagatesUnchanged ==
    \A t \in Tx :
        hist[t].intr # NoExc /\ pc[t] = "done" =>
            /\ hist[t].terminated = 1
            /\ hist[t].waited = 1
            /\ exc[t] = hist[t].intr

\* C7 (amended): if communicate() was interrupted, terminate() is called
\* before wait(); if wait() returns, the scope ends only afterwards and with
\* the original interruption; if wait() is itself interrupted, the scope ends
\* with that second interruption.  No other error takes their place.
C7_InterruptionOrSecondInterruption ==
    \A t \in Tx :
        hist[t].intr # NoExc =>
            /\ pc[t] \in {"terminate", "wait", "finally", "exit", "done"}
            /\ pc[t] # "terminate" => hist[t].terminated = 1
            /\ pc[t] \in {"terminate", "wait"} =>
                    hist[t].waited = 0 /\ exc[t] = hist[t].intr
            /\ pc[t] \in {"finally", "exit", "done"} =>
                \/ hist[t].waited = 1 /\ exc[t] = hist[t].intr
                \/ hist[t].waited = 0 /\ exc[t] = Interruption("wait")

\* an interrupted communicate() was followed by terminate() and a completed
\* wait(), and the interruption has reached the caller
C7_Witness ==
    \E t \in Tx :
        /\ pc[t] = "done" /\ hist[t].intr = Interruption("communicate")
        /\ hist[t].terminated = 1 /\ hist[t].waited = 1
        /\ exc[t] = Interruption("communicate")

\* C8: after an interruption of communicate() the scope is eventually left
\* and the storage lock released, whatever the hook subprocess does.
C8_InterruptedHookReleasesLock ==
    \A t \in Tx :
        (hist[t].intr # NoExc) ~> (pc[t] = "done" /\ ~Holds(t))

\* C9 (as stated): once the scope of a transaction that spawned a hook has
\* exited, neither the hook subprocess nor another member of its process
\* group is alive.
C9_NoProcessLeft ==
    \A t \in Tx :
        pc[t] = "done" /\ hist[t].spawned > 0 =>
            p[t].state # "running" /\ ~p[t].orphans

\* C9 (amended): once the scope of a transaction that spawned a hook has
\* exited, the hook subprocess is not alive and, on POSIX, neither is any
\* other member of its process group.
C9_NoProcessLeftOnPosix ==
    \A t \in Tx :
        pc[t] = "done" /\ hist[t].spawned > 0 =>
            /\ p[t].state # "running"
            /\ os_name = "posix" => ~p[t].orphans

\* on POSIX a scope has exited whose hook had left a process behind, which
\* the cleanup found and killed
C9_Witness ==
    \E t \in Tx :
        /\ os_name = "posix" /\ pc[t] = "done" /\ hist[t].spawned = 1
        /\ hist[t].waited = 1 /\ hist[t].warned = 1 /\ ~p[t].orphans

\* C10: while a write transaction is between lock acquisition and lock
\* release, no other transaction is inside its scope: no reader is in its
\* body and there is no second writer.
C10_WriterExcludesAll ==
    \A t, u \in Tx :
        t # u /\ InScope(t) /\ mode[t] = "w" => ~InScope(u)

\* a writer is executing its hook while another transaction is outside its
\* scope
C10_Witness ==
    \E t, u \in Tx :
        t # u /\ mode[t] = "w" /\ pc[t] = "communicate" /\ pc[u] = "idle"

\* C11: from the completion of a write transaction's body until its scope
\* has exited and its hook subprocess has terminated, no other write
\* transaction is inside its scope (body or hook); two hook subprocesses
\* never run at the same time.
C11_NoWriterBetweenCommitAndHook ==
    \A t, u \in Tx :
        t # u =>
            /\ mode[t] = "w" /\ hist[t].body = "returned"
                    /\ (InScope(t) \/ p[t].state = "running")
                => ~(mode[u] = "w" /\ InScope(u))
            /\ ~(p[t].state = "running" /\ p[u].state = "running")

\* a writer's hook is running after an earlier write transaction of another
\* caller has ended
C11_Witness ==
    \E t, u \in Tx :
        /\ t # u /\ mode[t] = "w" /\ hist[t].body = "returned"
        /\ p[t].state = "running" /\ pc[u] = "done" /\ mode[u] = "w"
        /\ hist[u].spawned = 1

\* what the cleanup of the finally clause changes in one step
CleanupStep(t) == pc[t] = "finally" /\ pc'[t] # "finally"
WarnedInStep(t) == hist'[t].warned - hist[t].warned

HookFailed(t) ==
    \/ exc[t].type = "OSError"
    \/ hist[t].intr # NoExc
    \/ hist[t].spawned = 1 /\ hist[t].waited = 1 /\ p[t].rc # 0

\* C16: the writes of a completed write-mode body stay in the storage tree
\* through every later step of the transaction, and a transaction whose hook
\* failed ends with an error.
C16_FailedHookKeepsData ==
    \A t \in Tx :
        /\ mode[t] = "w" /\ hist[t].body = "returned" => t \in tree
        /\ pc[t] = "done" /\ HookFailed(t) => exc[t] # NoExc /\ t \in tree

\* a write transaction has ended with a hook-failed error, its data on disk
C16_Witness ==
    \E t \in Tx :
        /\ pc[t] = "done" /\ exc[t].type = "CalledProcessError"
        /\ t \in tree

\* C17: a transaction spawns at most one hook subprocess, and Popen is
\* reached only by a transaction that has spawned nothing and met no failure.
C17_HookNeverRetried ==
    \A t \in Tx :
        /\ hist[t].spawned <= 1
        /\ pc[t] = "popen" =>
                /\ hist[t].spawned = 0
                /\ p[t].state = "none"
                /\ exc[t] = NoExc
                /\ hist[t].intr = NoExc

\* a transaction whose hook exited with a non-zero status has ended, having
\* spawned one subprocess
C17_Witness ==
    \E t \in Tx :
        /\ pc[t] = "done" /\ exc[t].type = "CalledProcessError"
        /\ exc[t].rc = 7 /\ hist[t].spawned = 1

\* C18: if Popen raises, its error is what reaches the caller, the lock is
\* released at the end of the scope, and terminate, wait and the process
\* group kill are never attempted.
C18_SpawnFailurePropagates ==
    \A t \in Tx :
        exc[t].type = "OSError" =>
            /\ pc[t] \in {"exit", "done"}
            /\ exc[t] = Exc("OSError", "popen")
            /\ hist[t].spawned = 0 /\ p[t].state = "none"
            /\ hist[t].terminated = 0 /\ hist[t].waited = 0
            /\ hist[t].killpg = 0 /\ hist[t].warned = 0
            /\ pc[t] = "done" => ~Holds(t) /\ hist[t].released = 1

\* a write transaction whose hook could not be spawned has ended
C18_Witness ==
    \E t \in Tx :
        /\ pc[t] = "done" /\ exc[t].type = "OSError" /\ mode[t] = "w"
        /\ hist[t].body = "returned" /\ hist[t].released = 1

\* a caller is inside the scope it got from _acquire_cache_lock
InCache(t) == scope[t].kind \in {"noop", "real"}

\* a caller's call of _acquire_cache_lock returns in this step
CacheCallReturns(t) == scope[t] = NoScope /\ scope'[t] # NoScope

\* C12: a call of _acquire_cache_lock made while the storage lock is held in
\* write mode returns the no-op resource and creates no cache folder and
\* takes no lock; the holder of the no-op resource holds no cache lock file,
\* and leaving the no-op scope changes no lock and no folder.
C12_WriteModeIsNoOp ==
    [][\A t \in Tx :
        /\ CacheCallReturns(t) /\ LockedBy(t) = "w" =>
                /\ scope'[t] = NoOp(scope'[t].ns)
                /\ cache_dir' = cache_dir
                /\ cache_lock' = cache_lock
                /\ <<readers, writer>>' = <<readers, writer>>
        /\ scope[t].kind = "noop" =>
                /\ \A f \in CacheLockPaths : t \notin cache_lock[f]
                /\ scope'[t] # scope[t] =>
                        /\ scope'[t] = NoScope
                        /\ cache_dir' = cache_dir
                        /\ cache_lock' = cache_lock
                        /\ <<readers, writer>>' = <<readers, writer>>
      ]_vars

\* a writer is inside the no-op scope, and no cache folder or lock exists
C12_Witness ==
    \E t \in Tx :
        /\ t \in writer /\ scope[t].kind = "noop" /\ ~cache_dir
        /\ \A f \in CacheLockPaths : cache_lock[f] = {}

C19_CacheAccessSerialized ==
    /\ \A t, u \in Tx :
            t # u /\ InCache(t) /\ InCache(u) => scope[t].ns # scope[u].ns
    /\ \A t \in Tx : scope[t].kind = "noop" => t \in writer

\* the caller's process was killed and its hook command is still running
HookOutlivesParent(t) == pc[t] = "killed" /\ p[t].state = "running"

\* t's lock is the only one held, and no request for the lock is granted
OnlyHolder(t) ==
    /\ writer = {t}
    /\ readers = {}
    /\ \A m \in Modes : ~CanAcquire(m)

\* C14 (as stated): while the hook of a killed caller is still running, the
\* storage write lock stays held and no other transaction has acquired it.
C14_LockHeldWhileHookRuns ==
    \A t \in Tx : HookOutlivesParent(t) => OnlyHolder(t)

\* C14 (amended): on POSIX, while the hook of a killed caller is still
\* running, the storage write lock stays held and no other transaction has
\* acquired it.
C14_LockHeldWhileHookRunsOnPosix ==
    \A t \in Tx : os_name = "posix" /\ HookOutlivesParent(t) => OnlyHolder(t)

\* on POSIX a caller was killed, its hook is running, and another caller has
\* yet to start its transaction
C14_Witness ==
    \E t, u \in Tx :
        /\ os_name = "posix" /\ HookOutlivesParent(t)
        /\ u # t /\ pc[u] = "idle"

\* a caller waits for the storage lock, or for a cache lock file
WaitsForStorage(t) == pc[t] = "acquiring"
WaitsForCache(t) == scope[t].kind = "wait"
WaitsForNested(t) == inner[t].kind = "wait"

\* every request for the storage lock or for a cache lock is granted
EveryRequestGranted ==
    \A t \in Tx :
        /\ WaitsForStorage(t) ~> Holds(t)
        /\ WaitsForCache(t) ~> scope[t].kind = "real"
        /\ WaitsForNested(t) ~> inner[t].kind = "real"

\* a write transaction is never left waiting for a cache lock file
WriterNeverWaits ==
    \A t \in Tx : t \in writer => ~WaitsForCache(t) /\ ~WaitsForNested(t)

\* the place of a namespace in the order in which cache locks are nested
NsOrder == << <<>>, <<"a">>, <<"b">> >>
NsRank(ns) == CHOOSE i \in 1..Len(NsOrder) : NsOrder[i] = ns

\* a caller asks for a cache lock file while holding one only if the one it
\* asks for comes later in the order
NestedInOrder ==
    \A t \in Tx :
        inner[t].kind \in {"wait", "real"} /\ scope[t].kind = "real" =>
            NsRank(scope[t].ns) < NsRank(inner[t].ns)

\* C20 (as stated): with transactions that take the storage lock first and
\* then enter _acquire_cache_lock scopes in their body, a write transaction
\* never waits for a cache lock and every request for the storage lock or
\* for a cache lock is eventually granted.
C20_NestedLocksDeadlockFree ==
    []WriterNeverWaits /\ EveryRequestGranted

\* C20 (amended): the same, for transactions that hold at most one cache lock
\* at a time or ask for a further one only in one fixed order of namespaces.
C20_NestedLocksDeadlockFreeInOrder ==
    ([]NestedInOrder) => ([]WriterNeverWaits /\ EveryRequestGranted)

\* a reader waits for the cache lock file that another reader holds
C20_Witness ==
    \E t, u \in Tx :
        /\ t # u /\ t \in readers /\ u \in readers
        /\ WaitsForCache(t) /\ scope[u].kind = "real"
        /\ scope[u].path = scope[t].path

====
